---- MODULE Spec2Model ----
(***************************************************************************)
(* A model of citybike/algorithms.py: merge_sort, insertion_sort,          *)
(* binary_search, linear_search, benchmark_sort and benchmark_search.      *)
(*                                                                         *)
(* Python lists are objects on a heap (heap[r] is the content of the list  *)
(* with reference r), so that aliasing and in-place writes are visible.    *)
(* Python indices are 0-based; At(s, i) reads s[i] of the Python list s.   *)
(* Elements are integers; the key projections are drawn from KeyFns.       *)
(***************************************************************************)
EXTENDS Integers, Sequences, FiniteSets, TLC

\* ------------------------------------------------------------------ bounds
MaxLen == 3
MaxVal == 2
MaxRepeats == 2
MaxTick == 1
TickMicros == 10

\* ------------------------------------------------------------------ inputs
Values == 0..MaxVal

RECURSIVE SeqsUpTo(_)
SeqsUpTo(n) ==
  IF n = 0 THEN {<<>>}
  ELSE LET shorter == SeqsUpTo(n - 1)
       IN shorter \cup {Append(s, v) : s \in {t \in shorter : Len(t) = n - 1}, v \in Values}

\* The inputs of the documented scenarios.
Scenarios == {<<5, 2, 4, 1, 3>>, <<1, 2, 3, 4, 5>>, <<5, 3, 3, 7>>}

Inputs == SeqsUpTo(MaxLen) \cup Scenarios

KeyFns == {"identity", "negate", "half"}

\* key(x) for the projection named k.
Key(k, x) ==
  CASE k = "identity" -> x
    [] k = "negate" -> 0 - x
    [] k = "half" -> x \div 2

Targets == ((0 - (MaxVal + 1))..(MaxVal + 1)) \cup {3, 4}

\* ------------------------------------------------------------ Python lists
At(s, i) == s[i + 1]

\* data[lo:hi]
Slice(s, lo, hi) == SubSeq(s, lo + 1, hi)

\* A fresh list object holding s: the new heap and the new reference.
Alloc(h, s) == [heap |-> Append(h, s), ref |-> Len(h) + 1]

\* ------------------------------------------------------------- merge sort
RECURSIVE merge_while_strict(_, _, _, _, _, _)
\* The while loop of _merge comparing with < in place of <=.
merge_while_strict(left, right, k, i, j, result) ==
  IF i < Len(left) /\ j < Len(right)
  THEN IF Key(k, At(left, i)) < Key(k, At(right, j))
       THEN merge_while_strict(left, right, k, i + 1, j, Append(result, At(left, i)))
       ELSE merge_while_strict(left, right, k, i, j + 1, Append(result, At(right, j)))
  ELSE [i |-> i, j |-> j, result |-> result]

RECURSIVE merge_while(_, _, _, _, _, _)
\* The while loop of _merge: i, j and result when it is left.
merge_while(left, right, k, i, j, result) ==
  IF i < Len(left) /\ j < Len(right)
  THEN IF Key(k, At(left, i)) <= Key(k, At(right, j))
       THEN merge_while(left, right, k, i + 1, j, Append(result, At(left, i)))
       ELSE merge_while(left, right, k, i, j + 1, Append(result, At(right, j)))
  ELSE [i |-> i, j |-> j, result |-> result]

\* _merge without the final result.extend(right[j:]).
_merge_no_right_tail(left, right, k) ==
  LET w == merge_while(left, right, k, 0, 0, <<>>)
  IN w.result \o Slice(left, w.i, Len(left))

\* The loop, then result.extend(left[i:]) and result.extend(right[j:]).
_merge(left, right, k) ==
  LET w == merge_while(left, right, k, 0, 0, <<>>)
  IN w.result \o Slice(left, w.i, Len(left)) \o Slice(right, w.j, Len(right))

RECURSIVE merge_sort(_, _)
\* The value merge_sort returns for a list holding s.
merge_sort(s, k) ==
  IF Len(s) <= 1
  THEN s
  ELSE LET mid == Len(s) \div 2
           left == merge_sort(Slice(s, 0, mid), k)
           right == merge_sort(Slice(s, mid, Len(s)), k)
       IN _merge(left, right, k)

\* list(data) in the base case: a new list object with data's content.
list_of(h, r) == Alloc(h, h[r])

\* The call merge_sort(data, key) on the list object r: the heap after the
\* call and the reference returned.
merge_sort_call(h, r, k) ==
  IF Len(h[r]) <= 1
  THEN list_of(h, r)
  ELSE Alloc(h, merge_sort(h[r], k))

\* --------------------------------------------------------- insertion sort
\* a = data in place of a = data.copy(): no new object.
copy_of_alias(h, r) == [heap |-> h, ref |-> r]

\* a = data.copy()
copy_of(h, r) == Alloc(h, h[r])

\* The inner while condition with j > 0 in place of j >= 0.
shift_cond_skip_first(a, j, current, k) == j > 0 /\ Key(k, At(a, j)) > Key(k, current)

\* The inner while condition with >= in place of >.
shift_cond_ge(a, j, current, k) == j >= 0 /\ Key(k, At(a, j)) >= Key(k, current)

\* The condition of the inner while loop.
shift_cond(a, j, current, k) == j >= 0 /\ Key(k, At(a, j)) > Key(k, current)

\* a[idx] = v
SetAt(s, idx, v) == [s EXCEPT ![idx + 1] = v]

RECURSIVE insert_while(_, _, _, _)
\* The inner while loop and the assignment a[j+1] = current after it.
insert_while(s, j, current, k) ==
  IF shift_cond(s, j, current, k)
  THEN insert_while(SetAt(s, j + 1, At(s, j)), j - 1, current, k)
  ELSE SetAt(s, j + 1, current)

RECURSIVE insert_for(_, _, _)
\* The for loop from index i on.
insert_for(s, i, k) ==
  IF i < Len(s)
  THEN insert_for(insert_while(s, i - 1, At(s, i), k), i + 1, k)
  ELSE s

\* The value insertion_sort returns for a list holding s.
insertion_sort(s, k) == insert_for(s, 1, k)

\* ---------------------------------------------------------- binary search
\* data[idx] of Python: a negative index counts from the end.
PyIndexOk(s, idx) == 0 - Len(s) <= idx /\ idx < Len(s)
PyAt(s, idx) == IF idx >= 0 THEN At(s, idx) ELSE At(s, Len(s) + idx)

Continue(low, high) == [kind |-> "continue", val |-> 0, low |-> low, high |-> high]
Return(kind, val) == [kind |-> kind, val |-> val, low |-> 0, high |-> 0]
ReturnNone == Return("none", 0)
Raise(exc) == Return("raise", exc)

\* high = len(sorted_data) - 2: the last element is left out.
high_init_short(s) == Len(s) - 2

\* high = len(sorted_data): one past the last element.
high_init_long(s) == Len(s)

\* low, high = 0, len(sorted_data) - 1
low_init(s) == 0
high_init(s) == Len(s) - 1

\* The loop body with low = mid in place of low = mid + 1.
bisect_step_low_mid(s, t, k, low, high) ==
  IF low <= high
  THEN LET mid == (low + high) \div 2
       IN IF ~PyIndexOk(s, mid)
          THEN Raise("IndexError")
          ELSE LET mid_val == Key(k, PyAt(s, mid))
               IN IF mid_val = t THEN Return("index", mid)
                  ELSE IF mid_val < t THEN Continue(mid, high)
                  ELSE Continue(low, mid - 1)
  ELSE ReturnNone

\* The loop body with the two halves exchanged: low moves on a larger key.
bisect_step_swapped(s, t, k, low, high) ==
  IF low <= high
  THEN LET mid == (low + high) \div 2
       IN IF ~PyIndexOk(s, mid)
          THEN Raise("IndexError")
          ELSE LET mid_val == Key(k, PyAt(s, mid))
               IN IF mid_val = t THEN Return("index", mid)
                  ELSE IF mid_val > t THEN Continue(mid + 1, high)
                  ELSE Continue(low, mid - 1)
  ELSE ReturnNone

\* One evaluation of the while condition and, when it holds, of the loop body.
bisect_step(s, t, k, low, high) ==
  IF low <= high
  THEN LET mid == (low + high) \div 2
       IN IF ~PyIndexOk(s, mid)
          THEN Raise("IndexError")
          ELSE LET mid_val == Key(k, PyAt(s, mid))
               IN IF mid_val = t THEN Return("index", mid)
                  ELSE IF mid_val < t THEN Continue(mid + 1, high)
                  ELSE Continue(low, mid - 1)
  ELSE ReturnNone

RECURSIVE bisect_run(_, _, _, _, _)
bisect_run(s, t, k, low, high) ==
  LET r == bisect_step(s, t, k, low, high)
  IN IF r.kind = "continue" THEN bisect_run(s, t, k, r.low, r.high) ELSE r

\* The outcome of the call binary_search(sorted_data, target, key).
binary_search(s, t, k) == bisect_run(s, t, k, low_init(s), high_init(s))

\* ---------------------------------------------------------- linear search
\* The names bound at module level, and the builtins the module uses.
ModuleGlobals ==
  {"timeit", "Callable", "Any", "merge_sort", "_merge", "insertion_sort",
   "binary_search", "linear_search", "benchmark_sort", "benchmark_search"}
Builtins == {"len", "list", "sorted", "range", "round"}

\* The parameters and the local names of linear_search.
linear_search_locals == {"data", "target", "key", "low", "high", "mid", "mid_val"}

\* Whether a name read inside linear_search resolves (local, global, builtin).
linear_search_resolves(name) ==
  name \in linear_search_locals \cup ModuleGlobals \cup Builtins

\* One evaluation of the while condition of linear_search and of its body,
\* which reads the name sorted_data.
linear_step(s, t, k, low, high) ==
  IF low <= high
  THEN IF ~linear_search_resolves("sorted_data")
       THEN Raise("NameError")
       ELSE bisect_step(s, t, k, low, high)
  ELSE ReturnNone

RECURSIVE linear_run(_, _, _, _, _)
linear_run(s, t, k, low, high) ==
  LET r == linear_step(s, t, k, low, high)
  IN IF r.kind = "continue" THEN linear_run(s, t, k, r.low, r.high) ELSE r

\* The outcome of the call linear_search(data, target, key).
linear_search(s, t, k) == linear_run(s, t, k, 0, Len(s) - 1)

\* ------------------------------------------------------------- benchmarks
RECURSIVE sorted_by(_, _, _)
\* The elements of s whose key is in keys, by ascending key, those with the
\* same key in their order in s.
sorted_by(s, k, keys) ==
  IF keys = {} THEN <<>>
  ELSE LET m == CHOOSE x \in keys : \A y \in keys : x <= y
           HasKey(e) == Key(k, e) = m
       IN SelectSeq(s, HasKey) \o sorted_by(s, k, keys \ {m})

\* The builtin sorted(data, key=key): a stable sort into a new list.
sorted(s, k) == sorted_by(s, k, {Key(k, s[n]) : n \in 1..Len(s)})

\* sorted_data = data.sort() in effect: the caller's list is sorted in place.
sorted_copy_in_place(h, r, k) == [heap |-> [h EXCEPT ![r] = sorted(h[r], k)], ref |-> r]

\* sorted_data = sorted(data, key=key): a new list object, data untouched.
sorted_copy(h, r, k) == Alloc(h, sorted(h[r], k))

\* The builtin test `target in data`: some element equals target.
builtin_in(s, t) == \E n \in 1..Len(s) : s[n] = t

\* The two readings of the clock subtracted the wrong way round.
timeit_elapsed_reversed(t0, t1) == t0 - t1

\* timeit.timeit: the timer is read before and after the runs, and the
\* difference of the two readings of a monotonic clock is returned.
timeit_elapsed(t0, t1) == t1 - t0

\* round(elapsed / repeats * 1000, 2), elapsed in clock ticks of TickMicros
\* microseconds: the values it can have, in hundredths of a millisecond. The
\* nearest hundredth; halfway between two, the binary float is slightly above
\* or below the half (round(0.005, 2) is 0.01, round(0.015, 2) is 0.01), so
\* either neighbour can be the value.
round_ms(elapsed, n) ==
  LET num == elapsed * TickMicros
      den == 10 * n
      q == num \div den
      rem == num % den
  IN IF 2 * rem > den THEN {q + 1}
     ELSE IF 2 * rem < den THEN {q}
     ELSE {q, q + 1}

\* ------------------------------------------------- factories and models
\* A dictionary built from a CSV row: every value is a string, and a key the
\* row does not hold has the value Absent.
Absent == "<absent>"
Has(d, k) == d[k] # Absent

\* data.get(k, default)
DictGet(d, k, default) == IF Has(d, k) THEN d[k] ELSE default

\* str.lower() on the strings of the model.
Lower(s) ==
  CASE s = "Casual" -> "casual"
    [] s = "MEMBER" -> "member"
    [] s = "Classic" -> "classic"
    [] s = "ELECTRIC" -> "electric"
    [] s = "Premium" -> "premium"
    [] s = " Casual " -> " casual "
    [] s = "Completed " -> "completed "
    [] OTHER -> s

\* str.strip() on the strings of the model.
Strip(s) ==
  CASE s = " casual " -> "casual"
    [] s = "completed " -> "completed"
    [] OTHER -> s

\* The strings of the model that int(s), float(s) and pd.to_numeric accept.
Numeric(s) == s \in {"-1", "0", "2", "7", "80", "150"}

\* The strings of the model that datetime.fromisoformat and pd.to_datetime accept.
IsoDate(s) == s \in {"2023-01-01", "2024-01-01", "2025-01-01"}

\* int(s) and float(s) on the strings of the model.
NumberOf(s) ==
  CASE s = "-1" -> 0 - 1
    [] s = "0" -> 0
    [] s = "2" -> 2
    [] s = "7" -> 7
    [] s = "80" -> 80
    [] s = "150" -> 150

\* datetime.fromisoformat(s) on the strings of the model, as yyyymmdd.
FromIso(s) ==
  CASE s = "2023-01-01" -> 20230101
    [] s = "2024-01-01" -> 20240101
    [] s = "2025-01-01" -> 20250101

\* The values datetime.now() can have.
Nows == {20240615, 20260101}

\* None as the value of a datetime parameter.
NoDate == 0

\* "@" in email, on the strings of the model.
ContainsAt(s) == s \in {"ann@example.org"}

Object(fields) == [kind |-> "object", val |-> fields]
Raised(exc) == [kind |-> "raise", val |-> exc]

\* Entity.__init__: id must be a non-empty string.
entity_id_ok(id) == id # ""

\* Bike.__init__ after Entity.__init__.
bike_init_ok(bike_type, status) ==
  /\ bike_type \in {"classic", "electric"}
  /\ status \in {"available", "in_use", "maintenance"}

\* ClassicBike(bike_id, gear_count)
classic_bike_init(bike_id, gear_count) ==
  IF ~entity_id_ok(bike_id) THEN Raised("ValueError")
  ELSE IF ~bike_init_ok("classic", "available") THEN Raised("ValueError")
  ELSE IF gear_count <= 0 THEN Raised("ValueError")
  ELSE Object([class |-> "ClassicBike", id |-> bike_id, bike_type |-> "classic",
               status |-> "available", gear_count |-> gear_count])

\* ElectricBike(bike_id, battery_level, max_range_km)
electric_bike_init(bike_id, battery_level, max_range_km) ==
  IF ~entity_id_ok(bike_id) THEN Raised("ValueError")
  ELSE IF ~bike_init_ok("electric", "available") THEN Raised("ValueError")
  ELSE IF ~(0 <= battery_level /\ battery_level <= 100) THEN Raised("ValueError")
  ELSE IF max_range_km <= 0 THEN Raised("ValueError")
  ELSE Object([class |-> "ElectricBike", id |-> bike_id, bike_type |-> "electric",
               status |-> "available", battery_level |-> battery_level,
               max_range_km |-> max_range_km])

\* create_bike with the comparison of bike_type made on the raw string.
create_bike_case_sensitive(d) ==
  LET bike_type == DictGet(d, "bike_type", "")
  IN IF bike_type = "classic"
     THEN IF ~Has(d, "bike_id") THEN Raised("KeyError")
          ELSE classic_bike_init(d["bike_id"],
                 IF Has(d, "gear_count") THEN NumberOf(d["gear_count"]) ELSE 7)
     ELSE IF bike_type = "electric"
     THEN IF ~Has(d, "bike_id") THEN Raised("KeyError")
          ELSE electric_bike_init(d["bike_id"],
                 IF Has(d, "battery_level") THEN NumberOf(d["battery_level"]) ELSE 100,
                 IF Has(d, "max_range_km") THEN NumberOf(d["max_range_km"]) ELSE 50)
     ELSE Raised("ValueError")

\* create_bike(data)
create_bike(d) ==
  LET bike_type == Lower(DictGet(d, "bike_type", ""))
  IN IF bike_type = "classic"
     THEN IF ~Has(d, "bike_id") THEN Raised("KeyError")
          ELSE classic_bike_init(d["bike_id"],
                 IF Has(d, "gear_count") THEN NumberOf(d["gear_count"]) ELSE 7)
     ELSE IF bike_type = "electric"
     THEN IF ~Has(d, "bike_id") THEN Raised("KeyError")
          ELSE electric_bike_init(d["bike_id"],
                 IF Has(d, "battery_level") THEN NumberOf(d["battery_level"]) ELSE 100,
                 IF Has(d, "max_range_km") THEN NumberOf(d["max_range_km"]) ELSE 50)
     ELSE Raised("ValueError")

\* User.__init__ after Entity.__init__: the email must hold an "@".
user_init_ok(user_id, email) == entity_id_ok(user_id) /\ ContainsAt(email)

\* CasualUser(user_id, name, email, day_pass_count)
casual_user_init(user_id, name, email, day_pass_count) ==
  IF ~user_init_ok(user_id, email) THEN Raised("ValueError")
  ELSE IF day_pass_count < 0 THEN Raised("ValueError")
  ELSE Object([class |-> "CasualUser", id |-> user_id, name |-> name, email |-> email,
               user_type |-> "casual", day_pass_count |-> day_pass_count])

\* MemberUser(user_id, name, email, membership_start, membership_end, tier)
member_user_init(user_id, name, email, membership_start, membership_end, tier, now) ==
  LET start == IF membership_start = NoDate THEN now ELSE membership_start
      end == IF membership_end = NoDate THEN start ELSE membership_end
  IN IF ~user_init_ok(user_id, email) THEN Raised("ValueError")
     ELSE IF end <= start THEN Raised("ValueError")
     ELSE IF tier \notin {"basic", "premium"} THEN Raised("ValueError")
     ELSE Object([class |-> "MemberUser", id |-> user_id, name |-> name, email |-> email,
                  user_type |-> "member", membership_start |-> start,
                  membership_end |-> end, tier |-> tier])

\* The names bound at the module level of factories.py.
FactoryGlobals ==
  {"datetime", "Bike", "ClassicBike", "ElectricBike", "User", "CasualUser",
   "MemberUser", "create_bike", "create_user"}

\* The parameter and the local names of create_user.
create_user_locals == {"data", "user_type", "membership_start", "membership_end", "tier"}

\* Whether a name read inside create_user resolves.
create_user_resolves(name) == name \in create_user_locals \cup FactoryGlobals

\* create_user(data), with now the value of datetime.now() in the constructor.
create_user(d, now) ==
  LET user_type == Lower(DictGet(d, "user_type", "casual"))
      keys_ok == Has(d, "user_id") /\ Has(d, "name") /\ Has(d, "email")
  IN IF user_type = "casual"
     THEN IF ~keys_ok THEN Raised("KeyError")
          ELSE casual_user_init(d["user_id"], d["name"], d["email"],
                 IF Has(d, "day_pass_count") THEN NumberOf(d["day_pass_count"]) ELSE 0)
     ELSE IF user_type = "member"
     THEN LET membership_start ==
                IF Has(d, "membership_start") THEN FromIso(d["membership_start"]) ELSE NoDate
              membership_end ==
                IF Has(d, "membership_end") THEN FromIso(d["membership_end"]) ELSE NoDate
              tier == Lower(DictGet(d, "tier", "basic"))
          IN IF ~keys_ok THEN Raised("KeyError")
             ELSE IF ~create_user_resolves("membwership_end") THEN Raised("NameError")
             ELSE member_user_init(d["user_id"], d["name"], d["email"],
                                   membership_start, membership_end, tier, now)
     ELSE Raised("ValueError")

\* MaintenanceRecord.VALID_TYPES
VALID_TYPES ==
  {"tire_repair", "brake_adjustment", "battery_replacement", "chain_lubrication",
   "general_inspection"}

\* The properties of MaintenanceRecord that have a setter: none has.
maintenance_record_setters == {}

\* The properties of MaintenanceRecord.
maintenance_record_properties == {"maintenance_type", "cost"}

\* Whether self.<name> = value succeeds in MaintenanceRecord.__init__: a
\* property without a setter cannot be assigned.
maintenance_record_assignable(name) ==
  name \notin maintenance_record_properties \/ name \in maintenance_record_setters

\* MaintenanceRecord(record_id, bike, date, maintenance_type, cost)
maintenance_record_init(record_id, maintenance_type, cost) ==
  IF maintenance_type \notin VALID_TYPES THEN Raised("ValueError")
  ELSE IF ~maintenance_record_assignable("maintenance_type") THEN Raised("AttributeError")
  ELSE IF cost < 0 THEN Raised("ValueError")
  ELSE IF ~maintenance_record_assignable("cost") THEN Raised("AttributeError")
  ELSE Object([class |-> "MaintenanceRecord", record_id |-> record_id,
               maintenance_type |-> maintenance_type, cost |-> cost])

\* The dictionaries passed to create_bike.
BikeDicts ==
  [bike_id : {Absent, "", "BK200"},
   bike_type : {Absent, "", "classic", "Classic", "electric", "ELECTRIC", "cargo"},
   gear_count : {Absent, "0", "7"},
   battery_level : {Absent, "80", "150"},
   max_range_km : {Absent, "0", "80"}]

\* The dictionaries passed to create_user.
UserDicts ==
  [user_id : {Absent, "", "U1"},
   name : {"Ann"},
   email : {Absent, "ann@example.org", "ann.example.org"},
   user_type : {Absent, "casual", "Casual", "member", "MEMBER", "vip"},
   day_pass_count : {Absent, "-1", "2"},
   membership_start : {Absent, "2024-01-01"},
   membership_end : {Absent, "2023-01-01", "2025-01-01"},
   tier : {Absent, "Premium", "gold"}]

\* The arguments passed to MaintenanceRecord.
RecordArgs ==
  [record_id : {"R1"},
   maintenance_type : VALID_TYPES \cup {"wash"},
   cost : {0 - 1, 0, 10}]

\* ------------------------------------------------------ the analyzer
\* The cells of a DataFrame: a string as read from the CSV file, a missing
\* value (NaN, NaT), a timestamp or a number.
Str(s) == [t |-> "str", s |-> s, n |-> 0]
NaN == [t |-> "nan", s |-> "", n |-> 0]
Time(n) == [t |-> "time", s |-> "", n |-> n]
Num(n) == [t |-> "num", s |-> "", n |-> n]

\* An attribute of BikeShareSystem that holds None, or a DataFrame.
NoneFrame == [none |-> TRUE, rows |-> <<>>]
Frame(rows) == [none |-> FALSE, rows |-> rows]

\* The rows of a table whose position is in K, in their order.
Pick(rows, K) ==
  LET F[n \in 0..Len(rows)] ==
        IF n = 0 THEN <<>>
        ELSE IF n \in K THEN Append(F[n - 1], rows[n]) ELSE F[n - 1]
  IN F[Len(rows)]

\* df.drop_duplicates that removes nothing.
drop_duplicates_off(rows, col) == rows

\* df.drop_duplicates(subset=[col]): the first row of each value is kept.
drop_duplicates(rows, col) ==
  Pick(rows, {n \in 1..Len(rows) : \A m \in 1..(n - 1) : rows[m][col] # rows[n][col]})

\* Whether pd.to_datetime accepts a cell.
to_datetime_accepts(c) == c.t \in {"nan", "time"} \/ (c.t = "str" /\ IsoDate(c.s))

\* pd.to_datetime on a cell it accepts.
to_datetime_cell(c) == IF c.t = "str" THEN Time(FromIso(c.s)) ELSE c

\* Whether pd.to_datetime(df[col]) returns rather than raises.
to_datetime_returns(rows, col) == \A n \in 1..Len(rows) : to_datetime_accepts(rows[n][col])

\* df[col] = pd.to_datetime(df[col])
to_datetime(rows, col) ==
  [n \in 1..Len(rows) |-> [rows[n] EXCEPT ![col] = to_datetime_cell(@)]]

\* pd.to_numeric(errors="coerce") on a cell.
to_numeric_cell(c) ==
  IF c.t = "str" THEN (IF Numeric(c.s) THEN Num(NumberOf(c.s)) ELSE NaN) ELSE c

\* df[col] = pd.to_numeric(df[col], errors="coerce")
to_numeric(rows, col) ==
  [n \in 1..Len(rows) |-> [rows[n] EXCEPT ![col] = to_numeric_cell(@)]]

\* df.dropna(subset=cols)
dropna(rows, cols) ==
  Pick(rows, {n \in 1..Len(rows) : \A c \in cols : rows[n][c].t # "nan"})

\* df[df["end_time"] >= df["start_time"]]
ends_after_start(rows) ==
  Pick(rows, {n \in 1..Len(rows) : rows[n]["end_time"].n >= rows[n]["start_time"].n})

\* df[df["distance_km"] >= 0]
distance_not_negative(rows) ==
  Pick(rows, {n \in 1..Len(rows) : rows[n]["distance_km"].n >= 0})

\* df[col] = df[col].str.lower().str.strip()
lower_strip(rows, col) ==
  [n \in 1..Len(rows) |-> [rows[n] EXCEPT ![col] = Str(Strip(Lower(@.s)))]]

\* The columns of trips that may not be missing.
RequiredColumns == {"start_time", "end_time", "duration_minutes", "distance_km"}

\* The files clean_data exports.
CleanFiles == {"trips_clean.csv", "stations_clean.csv"}

NoneResult == [kind |-> "none", val |-> 0]

\* clean_data without its check of self.trips.
clean_data_unguarded(trips) == FALSE

\* The check at the head of clean_data: self.trips is None.
clean_data_needs_load(trips) == trips.none

\* How far clean_data got: the attributes and files as it leaves them, and
\* its outcome.
Leaves(s, outcome) ==
  [trips |-> s.trips, stations |-> s.stations, maintenance |-> s.maintenance,
   files |-> s.files, result |-> outcome]

\* The part of clean_data after the dates are parsed.
clean_trips(rows) ==
  LET numbers == to_numeric(to_numeric(rows, "duration_minutes"), "distance_km")
      present == dropna(numbers, RequiredColumns)
      ordered == ends_after_start(present)
      travelled == distance_not_negative(ordered)
  IN lower_strip(lower_strip(lower_strip(travelled, "user_type"), "bike_type"), "status")

\* BikeShareSystem.clean_data(), on the attributes and files in s.  A method
\* called on None raises AttributeError; what was assigned before an
\* exception stays assigned.
clean_data(s) ==
  IF clean_data_needs_load(s.trips) THEN Leaves(s, Raised("RuntimeError"))
  ELSE IF s.trips.none THEN Leaves(s, Raised("AttributeError"))
  ELSE
    LET s1 == [s EXCEPT !.trips = Frame(drop_duplicates(s.trips.rows, "trip_id"))]
    IN IF s.stations.none THEN Leaves(s1, Raised("AttributeError"))
       ELSE
         LET s2 == [s1 EXCEPT !.stations = Frame(drop_duplicates(s.stations.rows, "station_id"))]
         IN IF s.maintenance.none THEN Leaves(s2, Raised("AttributeError"))
            ELSE
              LET s3 == [s2 EXCEPT !.maintenance =
                                     Frame(drop_duplicates(s.maintenance.rows, "record_id"))]
              IN IF ~to_datetime_returns(s3.trips.rows, "start_time")
                 THEN Leaves(s3, Raised("ValueError"))
                 ELSE
                   LET s4 == [s3 EXCEPT !.trips = Frame(to_datetime(s3.trips.rows, "start_time"))]
                   IN IF ~to_datetime_returns(s4.trips.rows, "end_time")
                      THEN Leaves(s4, Raised("ValueError"))
                      ELSE
                        LET dated == to_datetime(s4.trips.rows, "end_time")
                            s5 == [s4 EXCEPT !.trips = Frame(clean_trips(dated)),
                                             !.files = @ \cup CleanFiles]
                        IN Leaves(s5, NoneResult)

\* The most rows a table read from a CSV file has.
MaxRows == 2

\* The cells of a trips row other than its id.
TripCells ==
  LET Cells(s, e, du, di, u) ==
        [start_time |-> s, end_time |-> e, duration_minutes |-> du, distance_km |-> di,
         user_type |-> u]
      d1 == Str("2024-01-01")
      d2 == Str("2025-01-01")
  IN {Cells(d1, d2, Str("7"), Str("2"), Str("member")),
      Cells(d1, d1, Str("0"), Str("0"), Str(" Casual ")),
      Cells(NaN, d2, Str("7"), Str("2"), Str("member")),
      Cells(d1, NaN, Str("7"), Str("2"), Str("member")),
      Cells(d1, d2, Str("n/a"), Str("2"), Str("member")),
      Cells(d1, d2, Str("7"), NaN, Str("member")),
      Cells(d1, d2, Str("7"), Str("-1"), Str("member")),
      Cells(d2, d1, Str("7"), Str("2"), Str("member")),
      Cells(d1, Str("soon"), Str("7"), Str("2"), Str("member"))}

TripIds == {"T1", "T2"}

\* A trips row as pd.read_csv builds it, with its index label.
TripRow(index, id, c) ==
  [index |-> index, trip_id |-> Str(id), start_time |-> c.start_time,
   end_time |-> c.end_time, duration_minutes |-> c.duration_minutes,
   distance_km |-> c.distance_km, user_type |-> c.user_type,
   bike_type |-> Str("Classic"), status |-> Str("Completed ")]

\* The tables pd.read_csv can return for trips.csv.
TripTables ==
  UNION {{[n \in 1..len |-> TripRow(n - 1, f[n][1], f[n][2])] :
            f \in [1..len -> TripIds \X TripCells]} : len \in 0..MaxRows}

\* A table of one id column, with its index labels.
IdTable(col, ids) == [n \in 1..Len(ids) |-> [index |-> n - 1] @@ (col :> Str(ids[n]))]

\* The tables pd.read_csv can return for stations.csv and maintenance.csv.
StationTables ==
  {IdTable("station_id", ids) : ids \in {<<"S1", "S2">>, <<"S1", "S2", "S1">>}}
MaintenanceTables ==
  {IdTable("record_id", ids) : ids \in {<<"M1", "M2", "M1">>}}

\* ------------------------------------------------------------------ state
VARIABLES
  heap,      \* heap[r]: the content of the list object r
  data,      \* the reference of the caller's list
  data0,     \* the content of the caller's list when it was built
  keyfn,     \* the key projection passed to the call
  op,        \* the function called
  pc,        \* the position in the called function
  target,    \* the target of a search
  a,         \* insertion_sort: the reference of the working copy
  i,         \* insertion_sort: the outer index
  j,         \* insertion_sort: the inner index
  current,   \* insertion_sort: the held element
  low,       \* binary_search, linear_search: the lower end
  high,      \* binary_search, linear_search: the upper end
  iters,     \* binary_search, linear_search: the loop bodies executed so far
  repeats,   \* the benchmarks: the number of runs asked for
  sdata,     \* benchmark_search: the reference of sorted_data
  runs,      \* timeit: the runs made so far by the current timing
  t0,        \* timeit: the clock when the current timing started
  clock,     \* the clock, in ticks
  times,     \* the benchmarks: the elapsed times measured so far
  ran,       \* the number of times each timed statement has been executed
  seen,      \* the contents of the lists each timed statement was run on
  result,    \* the outcome of the call
  arg,       \* the factories and constructors: the argument of the call
  trips,     \* BikeShareSystem.trips
  stations,  \* BikeShareSystem.stations
  maintenance, \* BikeShareSystem.maintenance
  files,     \* the files written so far
  before,    \* the attributes and files when clean_data was called
  loaded     \* the attributes a load has assigned so far

vars ==
  <<heap, data, data0, keyfn, op, pc, target, a, i, j, current, low, high, iters,
    repeats, sdata, runs, t0, clock, times, ran, seen, result,
    arg, trips, stations, maintenance, files, before, loaded>>

sortVars == <<a, i, j, current>>
searchVars == <<low, high, iters>>
benchVars == <<repeats, sdata, runs, t0, clock, times, ran, seen>>
callerVars == <<data, data0, keyfn>>
algVars == <<heap, callerVars, target, sortVars, searchVars, benchVars>>
objVars == <<arg>>
sysVars == <<trips, stations, maintenance, files, before, loaded>>

Timed == {"merge_sort", "sorted", "binary_search", "linear_search", "in"}

NoResult == [kind |-> "pending", val |-> 0]
ListResult(r) == [kind |-> "list", val |-> r]
Outcome(r) == [kind |-> r.kind, val |-> r.val]

NoArg == [none |-> TRUE]
NoCall == [none |-> TRUE]
Frames == {"trips", "stations", "maintenance"}

\* No call has been made yet.
Fresh ==
  /\ op = "none"
  /\ data = 1
  /\ target = 0
  /\ a = 0
  /\ i = 0
  /\ j = 0
  /\ current = 0
  /\ low = 0
  /\ high = 0
  /\ iters = 0
  /\ repeats = 0
  /\ sdata = 0
  /\ runs = 0
  /\ t0 = 0
  /\ clock = 0
  /\ times = <<>>
  /\ ran = [f \in Timed |-> 0]
  /\ seen = [f \in Timed |-> {}]
  /\ result = NoResult
  /\ arg = NoArg
  /\ trips = NoneFrame
  /\ stations = NoneFrame
  /\ maintenance = NoneFrame
  /\ files = {}
  /\ before = NoCall
  /\ loaded = {}

\* A caller of algorithms.py holding a list and a key.
AlgInit ==
  /\ \E s \in Inputs : heap = <<s>> /\ data0 = s
  /\ keyfn \in KeyFns
  /\ pc = "idle"
  /\ Fresh

\* A caller of factories.py and models.py.
ObjInit ==
  /\ heap = << <<>> >>
  /\ data0 = <<>>
  /\ keyfn = "identity"
  /\ pc = "obj_idle"
  /\ Fresh

\* A BikeShareSystem as its constructor leaves it.
SysInit ==
  /\ heap = << <<>> >>
  /\ data0 = <<>>
  /\ keyfn = "identity"
  /\ pc = "sys_idle"
  /\ Fresh

Init == AlgInit \/ ObjInit \/ SysInit

\* ------------------------------------------------------------------ sorts
\* merge_sort(data, key)
CallMergeSort ==
  /\ pc = "idle"
  /\ LET r == merge_sort_call(heap, data, keyfn)
     IN /\ heap' = r.heap
        /\ result' = ListResult(r.ref)
  /\ op' = "merge_sort"
  /\ pc' = "done"
  /\ UNCHANGED <<callerVars, objVars, sysVars, target, sortVars, searchVars, benchVars>>

\* insertion_sort(data, key): a = data.copy(), and the for loop starts at 1.
CallInsertionSort ==
  /\ pc = "idle"
  /\ LET r == copy_of(heap, data)
     IN /\ heap' = r.heap
        /\ a' = r.ref
  /\ i' = 1
  /\ op' = "insertion_sort"
  /\ pc' = "is_for"
  /\ UNCHANGED <<callerVars, objVars, sysVars, target, j, current, searchVars, benchVars, result>>

\* for i in range(1, len(a)): current = a[i]; j = i - 1
IsForNext ==
  /\ pc = "is_for"
  /\ i < Len(heap[a])
  /\ current' = At(heap[a], i)
  /\ j' = i - 1
  /\ pc' = "is_while"
  /\ UNCHANGED <<heap, callerVars, objVars, sysVars, op, target, a, i, searchVars, benchVars, result>>

\* while j >= 0 and key(a[j]) > key(current): a[j+1] = a[j]; j -= 1
IsShift ==
  /\ pc = "is_while"
  /\ shift_cond(heap[a], j, current, keyfn)
  /\ heap' = [heap EXCEPT ![a] = SetAt(heap[a], j + 1, At(heap[a], j))]
  /\ j' = j - 1
  /\ UNCHANGED <<callerVars, objVars, sysVars, op, pc, target, a, i, current, searchVars, benchVars, result>>

\* The while loop is left: a[j+1] = current, and the for loop advances.
IsInsert ==
  /\ pc = "is_while"
  /\ ~shift_cond(heap[a], j, current, keyfn)
  /\ heap' = [heap EXCEPT ![a] = SetAt(heap[a], j + 1, current)]
  /\ i' = i + 1
  /\ pc' = "is_for"
  /\ UNCHANGED <<callerVars, objVars, sysVars, op, target, a, j, current, searchVars, benchVars, result>>

\* The for loop is exhausted: return a
IsReturn ==
  /\ pc = "is_for"
  /\ i >= Len(heap[a])
  /\ result' = ListResult(a)
  /\ pc' = "done"
  /\ UNCHANGED <<heap, callerVars, objVars, sysVars, op, target, sortVars, searchVars, benchVars>>

\* --------------------------------------------------------------- searches
\* binary_search(data, target, key): low, high = 0, len(sorted_data) - 1
CallBinarySearch ==
  /\ pc = "idle"
  /\ target' \in Targets
  /\ low' = low_init(heap[data])
  /\ high' = high_init(heap[data])
  /\ iters' = 0
  /\ op' = "binary_search"
  /\ pc' = "bs_while"
  /\ UNCHANGED <<heap, callerVars, objVars, sysVars, sortVars, benchVars, result>>

\* One test of the while condition of binary_search and, when it holds, one
\* execution of the loop body; return None when it does not.
BsStep ==
  /\ pc = "bs_while"
  /\ LET r == bisect_step(heap[data], target, keyfn, low, high)
     IN IF r.kind = "continue"
        THEN /\ low' = r.low
             /\ high' = r.high
             /\ UNCHANGED <<pc, result>>
        ELSE /\ result' = Outcome(r)
             /\ pc' = "done"
             /\ UNCHANGED <<low, high>>
  /\ iters' = IF low <= high THEN iters + 1 ELSE iters
  /\ UNCHANGED <<heap, callerVars, objVars, sysVars, op, target, sortVars, benchVars>>

\* linear_search(data, target, key): low, high = 0, len(data) - 1
CallLinearSearch ==
  /\ pc = "idle"
  /\ target' \in Targets
  /\ low' = 0
  /\ high' = Len(heap[data]) - 1
  /\ iters' = 0
  /\ op' = "linear_search"
  /\ pc' = "ls_while"
  /\ UNCHANGED <<heap, callerVars, objVars, sysVars, sortVars, benchVars, result>>

\* One test of the while condition of linear_search and, when it holds, one
\* execution of the loop body; return None when it does not.
LsStep ==
  /\ pc = "ls_while"
  /\ LET r == linear_step(heap[data], target, keyfn, low, high)
     IN IF r.kind = "continue"
        THEN /\ low' = r.low
             /\ high' = r.high
             /\ UNCHANGED <<pc, result>>
        ELSE /\ result' = Outcome(r)
             /\ pc' = "done"
             /\ UNCHANGED <<low, high>>
  /\ iters' = IF low <= high THEN iters + 1 ELSE iters
  /\ UNCHANGED <<heap, callerVars, objVars, sysVars, op, target, sortVars, benchVars>>

\* ------------------------------------------------------------- benchmarks
\* timeit.timeit starts: the timer is read, no run is made yet.
TimeitStart ==
  /\ runs' = 0
  /\ t0' = clock
  /\ UNCHANGED clock

\* One run of the timed statement f on the list holding s took some ticks of
\* the clock.
TimeitTick(f, s) ==
  /\ runs' = runs + 1
  /\ clock' \in clock..(clock + MaxTick)
  /\ ran' = [ran EXCEPT ![f] = @ + 1]
  /\ seen' = [seen EXCEPT ![f] = @ \cup {s}]
  /\ UNCHANGED t0

\* The returned list of a timed call is dropped: the objects allocated by the
\* call are gone, the objects that existed before keep what the call left.
Dropped(h) == SubSeq(h, 1, Len(heap))

\* The outcomes of benchmark_sort's return statement: the dictionary, or
\* ZeroDivisionError from the division by repeats.
sort_report(ts, n) ==
  IF n = 0 THEN {[kind |-> "raise", val |-> "ZeroDivisionError"]}
  ELSE {[kind |-> "dict", val |-> [merge_sort_ms |-> x, builtin_sorted_ms |-> y]] :
          x \in round_ms(ts[1], n), y \in round_ms(ts[2], n)}

\* The outcomes of benchmark_search's return statement: the dictionary, or
\* ZeroDivisionError from the division by repeats.
search_report(ts, n) ==
  IF n = 0 THEN {[kind |-> "raise", val |-> "ZeroDivisionError"]}
  ELSE {[kind |-> "dict",
         val |-> [binary_search_ms |-> x, linear_search_ms |-> y, builtin_in_ms |-> z]] :
          x \in round_ms(ts[1], n), y \in round_ms(ts[2], n), z \in round_ms(ts[3], n)}

\* benchmark_sort(data, key, repeats): the first timeit starts.
CallBenchmarkSort ==
  /\ pc = "idle"
  /\ repeats' \in 0..MaxRepeats
  /\ TimeitStart
  /\ op' = "benchmark_sort"
  /\ pc' = "bsort_merge"
  /\ UNCHANGED <<heap, callerVars, objVars, sysVars, target, sortVars, searchVars, sdata, times, ran, seen, result>>

\* One run of lambda: merge_sort(data, key=key)
BsortMergeRun ==
  /\ pc = "bsort_merge"
  /\ runs < repeats
  /\ heap' = Dropped(merge_sort_call(heap, data, keyfn).heap)
  /\ TimeitTick("merge_sort", heap[data])
  /\ UNCHANGED <<callerVars, objVars, sysVars, op, pc, target, sortVars, searchVars, repeats, sdata, times, result>>

\* The first timeit returns custom_time; the second one starts.
BsortMergeDone ==
  /\ pc = "bsort_merge"
  /\ runs >= repeats
  /\ times' = Append(times, timeit_elapsed(t0, clock))
  /\ TimeitStart
  /\ pc' = "bsort_builtin"
  /\ UNCHANGED <<heap, callerVars, objVars, sysVars, op, target, sortVars, searchVars, repeats, sdata, ran, seen, result>>

\* One run of lambda: sorted(data, key=key)
BsortBuiltinRun ==
  /\ pc = "bsort_builtin"
  /\ runs < repeats
  /\ heap' = Dropped(Alloc(heap, sorted(heap[data], keyfn)).heap)
  /\ TimeitTick("sorted", heap[data])
  /\ UNCHANGED <<callerVars, objVars, sysVars, op, pc, target, sortVars, searchVars, repeats, sdata, times, result>>

\* The second timeit returns builtin_time, and the dictionary is returned.
BsortReturn ==
  /\ pc = "bsort_builtin"
  /\ runs >= repeats
  /\ times' = Append(times, timeit_elapsed(t0, clock))
  /\ result' \in sort_report(times', repeats)
  /\ pc' = "done"
  /\ UNCHANGED <<heap, callerVars, objVars, sysVars, op, target, sortVars, searchVars, repeats, sdata, runs, t0, clock, ran, seen>>

\* benchmark_search(data, target, key, repeats): sorted_data = sorted(data,
\* key=key), and the first timeit starts.
CallBenchmarkSearch ==
  /\ pc = "idle"
  /\ target' \in Targets
  /\ repeats' \in 0..MaxRepeats
  /\ LET r == sorted_copy(heap, data, keyfn)
     IN /\ heap' = r.heap
        /\ sdata' = r.ref
  /\ TimeitStart
  /\ op' = "benchmark_search"
  /\ pc' = "bsearch_binary"
  /\ UNCHANGED <<callerVars, objVars, sysVars, sortVars, searchVars, times, ran, seen, result>>

\* One run of lambda: binary_search(sorted_data, target, key=key); an
\* exception of the run leaves benchmark_search.
BsearchBinaryRun ==
  /\ pc = "bsearch_binary"
  /\ runs < repeats
  /\ TimeitTick("binary_search", heap[sdata])
  /\ LET r == binary_search(heap[sdata], target, keyfn)
     IN IF r.kind = "raise"
        THEN result' = Outcome(r) /\ pc' = "done"
        ELSE UNCHANGED <<result, pc>>
  /\ UNCHANGED <<heap, callerVars, objVars, sysVars, op, target, sortVars, searchVars, repeats, sdata, times>>

\* The first timeit returns binary_time; the second one starts.
BsearchBinaryDone ==
  /\ pc = "bsearch_binary"
  /\ runs >= repeats
  /\ times' = Append(times, timeit_elapsed(t0, clock))
  /\ TimeitStart
  /\ pc' = "bsearch_linear"
  /\ UNCHANGED <<heap, callerVars, objVars, sysVars, op, target, sortVars, searchVars, repeats, sdata, ran, seen, result>>

\* One run of lambda: linear_search(data, target, key=key); an exception of
\* the run leaves benchmark_search.
BsearchLinearRun ==
  /\ pc = "bsearch_linear"
  /\ runs < repeats
  /\ TimeitTick("linear_search", heap[data])
  /\ LET r == linear_search(heap[data], target, keyfn)
     IN IF r.kind = "raise"
        THEN result' = Outcome(r) /\ pc' = "done"
        ELSE UNCHANGED <<result, pc>>
  /\ UNCHANGED <<heap, callerVars, objVars, sysVars, op, target, sortVars, searchVars, repeats, sdata, times>>

\* The second timeit returns linear_time; the third one starts.
BsearchLinearDone ==
  /\ pc = "bsearch_linear"
  /\ runs >= repeats
  /\ times' = Append(times, timeit_elapsed(t0, clock))
  /\ TimeitStart
  /\ pc' = "bsearch_builtin"
  /\ UNCHANGED <<heap, callerVars, objVars, sysVars, op, target, sortVars, searchVars, repeats, sdata, ran, seen, result>>

\* One run of lambda: target in data
BsearchBuiltinRun ==
  /\ pc = "bsearch_builtin"
  /\ runs < repeats
  /\ builtin_in(heap[data], target) \in BOOLEAN
  /\ TimeitTick("in", heap[data])
  /\ UNCHANGED <<heap, callerVars, objVars, sysVars, op, pc, target, sortVars, searchVars, repeats, sdata, times, result>>

\* The third timeit returns builtin_time, and the dictionary is returned.
BsearchReturn ==
  /\ pc = "bsearch_builtin"
  /\ runs >= repeats
  /\ times' = Append(times, timeit_elapsed(t0, clock))
  /\ result' \in search_report(times', repeats)
  /\ pc' = "done"
  /\ UNCHANGED <<heap, callerVars, objVars, sysVars, op, target, sortVars, searchVars, repeats, sdata, runs, t0, clock, ran, seen>>

\* ------------------------------------------------ factories and models
\* create_bike(data)
CallCreateBike ==
  /\ pc = "obj_idle"
  /\ \E d \in BikeDicts :
       /\ arg' = d
       /\ result' = create_bike(d)
  /\ op' = "create_bike"
  /\ pc' = "done"
  /\ UNCHANGED <<algVars, sysVars>>

\* create_user(data)
CallCreateUser ==
  /\ pc = "obj_idle"
  /\ \E d \in UserDicts, now \in Nows :
       /\ arg' = d
       /\ result' = create_user(d, now)
  /\ op' = "create_user"
  /\ pc' = "done"
  /\ UNCHANGED <<algVars, sysVars>>

\* MaintenanceRecord(record_id, bike, date, maintenance_type, cost)
NewMaintenanceRecord ==
  /\ pc = "obj_idle"
  /\ \E r \in RecordArgs :
       /\ arg' = r
       /\ result' = maintenance_record_init(r.record_id, r.maintenance_type, r.cost)
  /\ op' = "MaintenanceRecord"
  /\ pc' = "done"
  /\ UNCHANGED <<algVars, sysVars>>

\* ------------------------------------------------------ the analyzer
\* The system is between two calls.
InSys == pc = "sys_idle" \/ (pc = "done" /\ op = "clean_data")

\* BikeShareSystem.load_data()
LoadData ==
  /\ InSys
  /\ loaded = {}
  /\ trips' \in {Frame(rows) : rows \in TripTables}
  /\ stations' \in {Frame(rows) : rows \in StationTables}
  /\ maintenance' \in {Frame(rows) : rows \in MaintenanceTables}
  /\ loaded' = Frames
  /\ before' = NoCall
  /\ op' = "load_data"
  /\ pc' = "sys_idle"
  /\ result' = NoneResult
  /\ UNCHANGED <<algVars, objVars, files>>

\* system.trips = pd.read_csv("data/trips.csv")
AssignTrips ==
  /\ InSys
  /\ "trips" \notin loaded
  /\ trips' \in {Frame(rows) : rows \in TripTables}
  /\ loaded' = loaded \cup {"trips"}
  /\ before' = NoCall
  /\ op' = "assign"
  /\ pc' = "sys_idle"
  /\ result' = NoneResult
  /\ UNCHANGED <<algVars, objVars, stations, maintenance, files>>

\* system.stations = pd.read_csv("data/stations.csv")
AssignStations ==
  /\ InSys
  /\ "stations" \notin loaded
  /\ stations' \in {Frame(rows) : rows \in StationTables}
  /\ loaded' = loaded \cup {"stations"}
  /\ before' = NoCall
  /\ op' = "assign"
  /\ pc' = "sys_idle"
  /\ result' = NoneResult
  /\ UNCHANGED <<algVars, objVars, trips, maintenance, files>>

\* system.maintenance = pd.read_csv("data/maintenance.csv")
AssignMaintenance ==
  /\ InSys
  /\ "maintenance" \notin loaded
  /\ maintenance' \in {Frame(rows) : rows \in MaintenanceTables}
  /\ loaded' = loaded \cup {"maintenance"}
  /\ before' = NoCall
  /\ op' = "assign"
  /\ pc' = "sys_idle"
  /\ result' = NoneResult
  /\ UNCHANGED <<algVars, objVars, trips, stations, files>>

\* BikeShareSystem.clean_data()
CleanData ==
  /\ InSys
  /\ LET s == [trips |-> trips, stations |-> stations, maintenance |-> maintenance,
               files |-> files]
         r == clean_data(s)
     IN /\ before' = s
        /\ trips' = r.trips
        /\ stations' = r.stations
        /\ maintenance' = r.maintenance
        /\ files' = r.files
        /\ result' = r.result
  /\ op' = "clean_data"
  /\ pc' = "done"
  /\ UNCHANGED <<algVars, objVars, loaded>>

Next ==
  \/ CallMergeSort
  \/ CallInsertionSort
  \/ IsForNext
  \/ IsShift
  \/ IsInsert
  \/ IsReturn
  \/ CallBinarySearch
  \/ BsStep
  \/ CallLinearSearch
  \/ LsStep
  \/ CallBenchmarkSort
  \/ BsortMergeRun
  \/ BsortMergeDone
  \/ BsortBuiltinRun
  \/ BsortReturn
  \/ CallBenchmarkSearch
  \/ BsearchBinaryRun
  \/ BsearchBinaryDone
  \/ BsearchLinearRun
  \/ BsearchLinearDone
  \/ BsearchBuiltinRun
  \/ BsearchReturn
  \/ CallCreateBike
  \/ CallCreateUser
  \/ NewMaintenanceRecord
  \/ LoadData
  \/ AssignTrips
  \/ AssignStations
  \/ AssignMaintenance
  \/ CleanData

Spec == Init /\ [][Next]_vars

\* ----------------------------------------------------------- the claims
Returned(f) == pc = "done" /\ op = f

\* The list a sort returned.
Output == heap[result.val]

Count(s, v) == Cardinality({n \in 1..Len(s) : s[n] = v})
Elems(s) == {s[n] : n \in 1..Len(s)}
SameMultiset(s, u) ==
  /\ Len(s) = Len(u)
  /\ \A v \in Elems(s) \cup Elems(u) : Count(s, v) = Count(u, v)

Ascending(s, k) == \A n \in 1..(Len(s) - 1) : Key(k, s[n]) <= Key(k, s[n + 1])

\* The elements of s whose key is m, in their order in s.
WithKey(s, k, m) == LET HasKey(e) == Key(k, e) = m IN SelectSeq(s, HasKey)
Keys(s, k) == {Key(k, e) : e \in Elems(s)}

\* Elements with equal keys are in out in the order they have in inp.
Stable(out, inp, k) == \A m \in Keys(inp, k) \cup Keys(out, k) : WithKey(out, k, m) = WithKey(inp, k, m)

\* The Python indices of data0 whose key is the target.
Matches == {n \in 0..(Len(data0) - 1) : Key(keyfn, At(data0, n)) = target}
FirstMatch == CHOOSE n \in Matches : \A m \in Matches : n <= m

\* C1: merge_sort returns a list that holds the elements of its input with
\* the same multiplicities and is ascending by key; merge_sort([5,2,4,1,3])
\* is [1,2,3,4,5].
C1_MergeSortSorts ==
  Returned("merge_sort") =>
    /\ result.kind = "list"
    /\ SameMultiset(Output, data0)
    /\ Ascending(Output, keyfn)
    /\ (data0 = <<5, 2, 4, 1, 3>> /\ keyfn = "identity" => Output = <<1, 2, 3, 4, 5>>)

C1_Witness ==
  /\ Returned("merge_sort")
  /\ data0 = <<5, 2, 4, 1, 3>>
  /\ keyfn = "identity"
  /\ Output = <<1, 2, 3, 4, 5>>

\* C2: insertion_sort returns a list that holds the elements of its input
\* with the same multiplicities and is ascending by key;
\* insertion_sort([5,2,4,1,3]) is [1,2,3,4,5].
C2_InsertionSortSorts ==
  Returned("insertion_sort") =>
    /\ result.kind = "list"
    /\ SameMultiset(Output, data0)
    /\ Ascending(Output, keyfn)
    /\ (data0 = <<5, 2, 4, 1, 3>> /\ keyfn = "identity" => Output = <<1, 2, 3, 4, 5>>)

C2_Witness ==
  /\ Returned("insertion_sort")
  /\ data0 = <<5, 2, 4, 1, 3>>
  /\ keyfn = "identity"
  /\ Output = <<1, 2, 3, 4, 5>>

\* C3: both sorts are stable: elements with equal keys keep their input
\* order in the output, and an input whose keys are all equal is returned in
\* its input order.
C3_SortsStable ==
  Returned("merge_sort") \/ Returned("insertion_sort") =>
    /\ Stable(Output, data0, keyfn)
    /\ (Cardinality(Keys(data0, keyfn)) <= 1 => Output = data0)

\* merge_sort has moved two distinct elements of equal key behind a larger one.
C3_Witness ==
  /\ Returned("merge_sort")
  /\ keyfn = "half"
  /\ data0 = <<2, 1, 0>>
  /\ Output = <<1, 0, 2>>

\* C4: linear_search returns the smallest index whose key equals the target
\* whenever some element matches.
C4_LinearSearchFirstMatch ==
  Returned("linear_search") /\ Matches # {} =>
    result = [kind |-> "index", val |-> FirstMatch]

\* C5: linear_search on a non-empty list without a match returns None and
\* raises nothing.
C5_LinearSearchNotFound ==
  Returned("linear_search") /\ Len(data0) > 0 /\ Matches = {} =>
    result.kind = "none"

\* C6: on a list ascending by key, binary_search returns an index in range
\* whose key equals the target when some element matches, and None when no
\* element matches; binary_search([1,2,3,4,5], 4) is 3.
C6_BinarySearchSorted ==
  Returned("binary_search") /\ Ascending(data0, keyfn) =>
    /\ Matches # {} => result.kind = "index" /\ result.val \in Matches
    /\ Matches = {} => result.kind = "none"
    /\ (data0 = <<1, 2, 3, 4, 5>> /\ keyfn = "identity" /\ target = 4
          => result = [kind |-> "index", val |-> 3])

\* The only match sits at the last index of a list of MaxLen elements.
C6_Witness ==
  /\ Returned("binary_search")
  /\ Ascending(data0, keyfn)
  /\ Len(data0) = MaxLen
  /\ Matches = {Len(data0) - 1}
  /\ result = [kind |-> "index", val |-> Len(data0) - 1]

\* C7: on an empty list the two sorts return an empty list and the two
\* searches return None, none of them raising.
C7_EmptyInput ==
  pc = "done" /\ Len(data0) = 0 =>
    /\ op \in {"merge_sort", "insertion_sort"} => result.kind = "list" /\ Output = <<>>
    /\ op \in {"binary_search", "linear_search"} => result.kind = "none"

C7_Witness ==
  /\ Returned("linear_search")
  /\ Len(data0) = 0
  /\ result.kind = "none"

SearchReportKeys == {"binary_search_ms", "linear_search_ms", "builtin_in_ms"}
SortReportKeys == {"merge_sort_ms", "builtin_sorted_ms"}

\* C8: benchmark_search with repeats >= 1 returns a dictionary with exactly
\* the entries binary_search_ms, linear_search_ms and builtin_in_ms, each
\* non-negative, and raises nothing.
C8_BenchmarkSearchReports ==
  Returned("benchmark_search") /\ repeats >= 1 =>
    /\ result.kind = "dict"
    /\ DOMAIN result.val = SearchReportKeys
    /\ \A f \in SearchReportKeys : result.val[f] >= 0

\* C9: benchmark_sort with repeats >= 1 returns a dictionary with exactly the
\* entries merge_sort_ms and builtin_sorted_ms, each non-negative, raises
\* nothing, and has run each of the two sorts repeats times on the caller's
\* input.
C9_BenchmarkSortReports ==
  Returned("benchmark_sort") /\ repeats >= 1 =>
    /\ result.kind = "dict"
    /\ DOMAIN result.val = SortReportKeys
    /\ \A f \in SortReportKeys : result.val[f] >= 0
    /\ ran["merge_sort"] = repeats /\ ran["sorted"] = repeats
    /\ seen["merge_sort"] = {data0} /\ seen["sorted"] = {data0}

\* Two runs on a list of one element, with a measurable merge_sort time.
C9_Witness ==
  /\ Returned("benchmark_sort")
  /\ repeats = 2
  /\ Len(data0) = 1
  /\ result.kind = "dict"
  /\ result.val["merge_sort_ms"] > 0

\* C10: during and after a call of merge_sort or insertion_sort the caller's
\* list holds what it held before, and the list returned is another object.
C10_SortsDoNotMutate ==
  op \in {"merge_sort", "insertion_sort"} =>
    /\ heap[data] = data0
    /\ pc = "done" => result.kind = "list" /\ result.val # data

\* insertion_sort has returned a reordered list, the caller's list is as it was.
C10_Witness ==
  /\ Returned("insertion_sort")
  /\ Len(data0) >= 2
  /\ Output # data0
  /\ heap[data] = data0

\* C11: a sort of a list already ascending by key returns it element for
\* element, so that sorting the returned list once more returns it again.
C11_SortsIdempotent ==
  /\ Returned("merge_sort") =>
       /\ Ascending(data0, keyfn) => Output = data0
       /\ merge_sort(Output, keyfn) = Output
       /\ insertion_sort(Output, keyfn) = Output
  /\ Returned("insertion_sort") =>
       /\ Ascending(data0, keyfn) => Output = data0
       /\ Output = insertion_sort(data0, keyfn)
       /\ insertion_sort(Output, keyfn) = Output
       /\ merge_sort(Output, keyfn) = Output

\* insertion_sort has returned an ascending list that holds distinct elements
\* of equal key as it was.
C11_Witness ==
  /\ Returned("insertion_sort")
  /\ keyfn = "half"
  /\ data0 = <<1, 0, 2>>
  /\ Output = data0

\* C12: during and after benchmark_sort and benchmark_search the caller's
\* list holds what it held before, the list sorted for binary_search is
\* another object, and binary_search and linear_search write to no list.
C12_BenchmarksDoNotMutate ==
  /\ op \in {"benchmark_sort", "benchmark_search", "binary_search", "linear_search"} =>
       heap[data] = data0
  /\ op = "benchmark_search" =>
       /\ sdata # data
       /\ heap[sdata] = sorted(data0, keyfn)
  /\ op \in {"binary_search", "linear_search"} => heap = <<data0>>

\* benchmark_search has ended on a list that was not in order, after its
\* binary_search runs on the sorted copy.
C12_Witness ==
  /\ pc = "done"
  /\ op = "benchmark_search"
  /\ ~Ascending(data0, keyfn)
  /\ ran["binary_search"] = MaxRepeats
  /\ heap[sdata] # data0
  /\ heap[data] = data0

\* C13: binary_search on a list in any order raises nothing and ends: it
\* returns None or an index in range whose key is the target, and the width
\* of [low, high] plus the loop bodies executed never exceeds the length.
C13_BinarySearchUnsorted ==
  op = "binary_search" =>
    /\ pc = "bs_while" => (high - low + 1) + iters <= Len(data0) /\ low <= high + 1
    /\ pc = "done" =>
         /\ result.kind \in {"none", "index"}
         /\ result.kind = "index" => result.val \in Matches
         /\ iters <= Len(data0)

\* On a list out of order binary_search has returned None although an
\* element matches.
C13_Witness ==
  /\ Returned("binary_search")
  /\ ~Ascending(data0, keyfn)
  /\ Matches # {}
  /\ result.kind = "none"

\* The loop of binary_search is at its while condition.
AtBsLoop == op = "binary_search" /\ pc = "bs_while"

\* C19: in binary_search on a list ascending by key, at every test of the
\* loop 0 <= low, high <= len - 1 and every matching index lies in
\* [low, high]; an iteration that does not return shrinks high - low; at most
\* len loop bodies are executed.
C19_BisectionInvariant ==
  /\ [](AtBsLoop /\ Ascending(data0, keyfn) =>
          /\ 0 <= low
          /\ high <= Len(data0) - 1
          /\ Matches \subseteq low..high
          /\ iters <= Len(data0))
  /\ [](Returned("binary_search") /\ Ascending(data0, keyfn) => iters <= Len(data0))
  /\ [][AtBsLoop /\ pc' = "bs_while" /\ Ascending(data0, keyfn)
          => high' - low' < high - low]_vars

\* After a first iteration the loop goes on with a match still ahead.
C19_Witness ==
  /\ AtBsLoop
  /\ Ascending(data0, keyfn)
  /\ iters >= 1
  /\ low <= high
  /\ Matches # {}

\* insertion_sort: the working list, the part of it already in place and the
\* same part of the input.
Work == heap[a]
Placed(n) == Slice(Work, 0, n)
Given(n) == Slice(data0, 0, n)

\* C20: in insertion_sort, when the outer loop has completed the indices
\* below i, a[0..i-1] is ascending by key and a stable rearrangement of
\* data[0..i-1] and the rest of a is the rest of data; in the inner loop only
\* elements whose key is greater than the key of the held element have been
\* shifted.
C20_InsertionInvariant ==
  /\ op = "insertion_sort" /\ pc = "is_for" =>
       LET n == IF i < Len(Work) THEN i ELSE Len(Work)
       IN /\ Ascending(Placed(n), keyfn)
          /\ SameMultiset(Placed(n), Given(n))
          /\ Stable(Placed(n), Given(n), keyfn)
          /\ Slice(Work, n, Len(Work)) = Slice(data0, n, Len(data0))
  /\ op = "insertion_sort" /\ pc = "is_while" =>
       /\ \A p \in (j + 2)..i : Key(keyfn, At(Work, p)) > Key(keyfn, current)
       /\ Slice(Work, i + 1, Len(Work)) = Slice(data0, i + 1, Len(data0))
       /\ current = At(data0, i)

\* The outer loop has moved an element and has more of the list to go.
C20_Witness ==
  /\ op = "insertion_sort"
  /\ pc = "is_for"
  /\ i >= 2
  /\ i < Len(Work)
  /\ Placed(i) # Given(i)

\* The user_type and bike_type the factories dispatch on.
UserType == Lower(DictGet(arg, "user_type", "casual"))
BikeType == Lower(DictGet(arg, "bike_type", ""))

\* The dictionary holds everything the constructor of the user asks for.
UserWellFormed ==
  /\ Has(arg, "user_id") /\ arg["user_id"] # ""
  /\ Has(arg, "name")
  /\ Has(arg, "email") /\ ContainsAt(arg["email"])
  /\ Has(arg, "day_pass_count") => NumberOf(arg["day_pass_count"]) >= 0
  /\ Has(arg, "membership_start") /\ Has(arg, "membership_end")
  /\ FromIso(arg["membership_end"]) > FromIso(arg["membership_start"])
  /\ Lower(DictGet(arg, "tier", "basic")) \in {"basic", "premium"}

IsObject(class) == result.kind = "object" /\ result.val.class = class

\* C14: create_user returns a CasualUser for user_type casual (any case, or
\* absent) and a MemberUser for member (any case), built from user_id, name,
\* email and the fields of the type; any other user_type raises ValueError.
C14_CreateUserDispatch ==
  Returned("create_user") =>
    /\ UserType = "casual" /\ UserWellFormed =>
         /\ IsObject("CasualUser")
         /\ result.val.id = arg["user_id"]
         /\ result.val.name = arg["name"]
         /\ result.val.email = arg["email"]
         /\ result.val.day_pass_count =
              (IF Has(arg, "day_pass_count") THEN NumberOf(arg["day_pass_count"]) ELSE 0)
    /\ UserType = "member" /\ UserWellFormed =>
         /\ IsObject("MemberUser")
         /\ result.val.id = arg["user_id"]
         /\ result.val.name = arg["name"]
         /\ result.val.email = arg["email"]
         /\ result.val.membership_start = FromIso(arg["membership_start"])
         /\ result.val.membership_end = FromIso(arg["membership_end"])
         /\ result.val.tier = Lower(DictGet(arg, "tier", "basic"))
    /\ UserType \notin {"casual", "member"} => result = Raised("ValueError")

\* The dictionary holds a bike_id and fields the constructor of the bike accepts.
BikeWellFormed ==
  /\ Has(arg, "bike_id") /\ arg["bike_id"] # ""
  /\ BikeType = "classic" /\ Has(arg, "gear_count") => NumberOf(arg["gear_count"]) > 0
  /\ BikeType = "electric" /\ Has(arg, "battery_level") =>
       (0 <= NumberOf(arg["battery_level"]) /\ NumberOf(arg["battery_level"]) <= 100)
  /\ BikeType = "electric" /\ Has(arg, "max_range_km") => NumberOf(arg["max_range_km"]) > 0

\* C15 as stated: create_bike returns a ClassicBike for bike_type classic and
\* an ElectricBike for electric (case-insensitively) with the id of
\* data['bike_id']; any other or missing bike_type raises ValueError and no
\* object is created.
C15_CreateBikeDispatch ==
  Returned("create_bike") =>
    /\ BikeType = "classic" => IsObject("ClassicBike") /\ result.val.id = arg["bike_id"]
    /\ BikeType = "electric" => IsObject("ElectricBike") /\ result.val.id = arg["bike_id"]
    /\ BikeType \notin {"classic", "electric"} => result = Raised("ValueError")

\* C15: when data holds a non-empty bike_id and the optional fields of the
\* type are valid, create_bike returns a ClassicBike for bike_type classic and
\* an ElectricBike for electric (case-insensitively) with the id of
\* data['bike_id']; with a missing bike_id it raises KeyError and with an
\* invalid field ValueError; any other or missing bike_type raises ValueError
\* and no object is created.
C15_CreateBikeDispatchValid ==
  Returned("create_bike") =>
    /\ BikeType = "classic" /\ BikeWellFormed =>
         IsObject("ClassicBike") /\ result.val.id = arg["bike_id"]
    /\ BikeType = "electric" /\ BikeWellFormed =>
         IsObject("ElectricBike") /\ result.val.id = arg["bike_id"]
    /\ BikeType \in {"classic", "electric"} /\ ~BikeWellFormed =>
         result = (IF Has(arg, "bike_id") THEN Raised("ValueError") ELSE Raised("KeyError"))
    /\ BikeType \notin {"classic", "electric"} => result = Raised("ValueError")
C15_Witness ==
  /\ Returned("create_bike")
  /\ arg["bike_type"] = "ELECTRIC"
  /\ Has(arg, "battery_level")
  /\ IsObject("ElectricBike")
  /\ result.val.id = "BK200"

\* C16: a MaintenanceRecord built with a maintenance_type of VALID_TYPES and a
\* cost >= 0 reports that maintenance_type and cost; a maintenance_type outside
\* VALID_TYPES or a negative cost raises ValueError.
C16_MaintenanceRecordValidates ==
  Returned("MaintenanceRecord") =>
    /\ arg.maintenance_type \in VALID_TYPES /\ arg.cost >= 0 =>
         /\ IsObject("MaintenanceRecord")
         /\ result.val.maintenance_type = arg.maintenance_type
         /\ result.val.cost = arg.cost
    /\ arg.maintenance_type \notin VALID_TYPES \/ arg.cost < 0 =>
         result = Raised("ValueError")

Completed == Returned("clean_data") /\ result = NoneResult

\* C17: clean_data called while trips is None raises RuntimeError, leaves
\* trips, stations and maintenance as they were and writes no file; whenever
\* clean_data completes, a load of all three frames came before it.
C17_CleanDataNeedsLoad ==
  Returned("clean_data") =>
    /\ before.trips.none =>
         /\ result = Raised("RuntimeError")
         /\ trips = before.trips
         /\ stations = before.stations
         /\ maintenance = before.maintenance
         /\ files = before.files
         /\ files = {}
    /\ result = NoneResult =>
         /\ loaded = Frames
         /\ ~before.trips.none /\ ~before.stations.none /\ ~before.maintenance.none
C17_Witness ==
  /\ Returned("clean_data")
  /\ before.trips.none
  /\ ~stations.none
  /\ ~maintenance.none
  /\ result.kind = "raise"

Unique(rows, col) ==
  \A m, n \in 1..Len(rows) : m # n => rows[m][col] # rows[n][col]

Labels(rows) == {rows[n].index : n \in 1..Len(rows)}

\* An earlier row of the table has the trip_id of row n.
Duplicate(rows, n) == \E m \in 1..(n - 1) : rows[m]["trip_id"] = rows[n]["trip_id"]

\* Row r misses a required value, ends before it starts or has a negative distance.
Invalid(r) ==
  LET start == to_datetime_cell(r["start_time"])
      end == to_datetime_cell(r["end_time"])
      duration == to_numeric_cell(r["duration_minutes"])
      distance == to_numeric_cell(r["distance_km"])
  IN \/ "nan" \in {start.t, end.t, duration.t, distance.t}
     \/ end.n < start.n
     \/ distance.n < 0

\* C18: after clean_data completes, trips has no two rows with the same
\* trip_id, no row with a missing start_time, end_time, duration_minutes or
\* distance_km, only rows with end_time >= start_time and distance_km >= 0;
\* stations has unique station_id and maintenance unique record_id; every row
\* removed from trips repeated the trip_id of an earlier row or broke one of
\* the conditions on rows.
C18_CleanDataPostcondition ==
  Completed =>
    /\ Unique(trips.rows, "trip_id")
    /\ \A n \in 1..Len(trips.rows) :
         LET r == trips.rows[n]
         IN /\ \A c \in RequiredColumns : r[c].t # "nan"
            /\ r["start_time"].t = "time" /\ r["end_time"].t = "time"
            /\ r["end_time"].n >= r["start_time"].n
            /\ r["distance_km"].t = "num" /\ r["distance_km"].n >= 0
    /\ Unique(stations.rows, "station_id")
    /\ Unique(maintenance.rows, "record_id")
    /\ Labels(trips.rows) \subseteq Labels(before.trips.rows)
    /\ \A n \in 1..Len(before.trips.rows) :
         before.trips.rows[n].index \notin Labels(trips.rows) =>
           Duplicate(before.trips.rows, n) \/ Invalid(before.trips.rows[n])
C18_Witness ==
  /\ Completed
  /\ Len(before.trips.rows) = 2
  /\ before.trips.rows[1]["trip_id"] = before.trips.rows[2]["trip_id"]
  /\ Labels(trips.rows) = {0}
  /\ Len(before.stations.rows) = 3
  /\ Len(stations.rows) = 2
  /\ Len(before.maintenance.rows) = 3
  /\ Len(maintenance.rows) = 2


\* C21: merge_sort and insertion_sort compute the same function: for every
\* input and key, also with equal keys, each returns element for element what
\* the other returns, and that is the stable sort of the input by key.
C21_SortsAgree ==
  /\ Returned("merge_sort") =>
       /\ Output = insertion_sort(data0, keyfn)
       /\ Output = sorted(data0, keyfn)
  /\ Returned("insertion_sort") =>
       /\ Output = merge_sort(data0, keyfn)
       /\ Output = sorted(data0, keyfn)

\* insertion_sort has reordered an input in which distinct elements share a key.
C21_Witness ==
  /\ Returned("insertion_sort")
  /\ Cardinality(Keys(data0, keyfn)) < Cardinality(Elems(data0))
  /\ ~Ascending(data0, keyfn)
  /\ Output # data0
  /\ Output = merge_sort(data0, keyfn)

====
